---- MODULE Spec2Model ----
(***************************************************************************)
(* C_deStructor: re-emits a C initializer written against a "full" struct  *)
(* schema as a nested initializer shaped like a "view" schema.             *)
(*                                                                         *)
(* Texts are sequences of one-character strings, so that the lexer, the    *)
(* regular expressions and the string formatting of the program are        *)
(* modelled by what they do on characters.                                 *)
(***************************************************************************)
EXTENDS Integers, Sequences, FiniteSets, TLC

(***************************************************************************)
(* Bounds of the explored inputs.                                          *)
(***************************************************************************)
\* array dimensions of the generated schemas range over 1..MaxDim
MaxDim == 2
\* the generated target struct has 1..MaxFields fields
MaxFields == 2
\* a generated top-level array literal has 1..MaxInst instances
MaxInst == 2

(***************************************************************************)
(* Characters and character classes (Python re: \d, \w, \s).               *)
(***************************************************************************)
DigitSeq == <<"0", "1", "2", "3", "4", "5", "6", "7", "8", "9">>

Digits == {DigitSeq[i] : i \in 1..Len(DigitSeq)}

Letters ==
    {"a", "b", "c", "d", "e", "f", "g", "h", "i", "j", "k", "l", "m",
     "n", "o", "p", "q", "r", "s", "t", "u", "v", "w", "x", "y", "z",
     "A", "B", "C", "D", "E", "F", "G", "H", "I", "J", "K", "L", "M",
     "N", "O", "P", "Q", "R", "S", "T", "U", "V", "W", "X", "Y", "Z"}

IdStart == Letters \cup {"_"}

WordChars == Letters \cup Digits \cup {"_"}

Space == {" ", "\n", "\t"}

\* the empty text ""
Empty == <<>>

Min(a, b) == IF a <= b THEN a ELSE b

\* s[i:] of Python, i a 1-based position
From(s, i) == SubSeq(s, i, Len(s))

\* text.startswith(lit, i-1)
StartsAt(s, i, lit) ==
    /\ i + Len(lit) - 1 <= Len(s)
    /\ SubSeq(s, i, i + Len(lit) - 1) = lit

\* the first position >= i of s whose character is not in Cls (Len(s)+1 if none):
\* where a greedy Cls* starting at i ends
RECURSIVE ScanWhile(_, _, _)
ScanWhile(s, i, Cls) ==
    IF i <= Len(s) /\ s[i] \in Cls THEN ScanWhile(s, i + 1, Cls) ELSE i

\* the first position >= i of s whose character is c (Len(s)+1 if none)
RECURSIVE FindChar(_, _, _)
FindChar(s, i, c) ==
    IF i <= Len(s) /\ s[i] # c THEN FindChar(s, i + 1, c) ELSE i

\* str.strip()
RECURSIVE RStrip(_)
RStrip(s) ==
    IF s # <<>> /\ s[Len(s)] \in Space THEN RStrip(SubSeq(s, 1, Len(s) - 1)) ELSE s

Strip(s) == RStrip(From(s, ScanWhile(s, 1, Space)))

\* sep.join(parts)
RECURSIVE Join(_, _)
Join(sep, parts) ==
    IF parts = <<>> THEN <<>>
    ELSE IF Len(parts) = 1 THEN parts[1]
    ELSE parts[1] \o sep \o Join(sep, Tail(parts))

\* str(i) for a natural number i
RECURSIVE IntToStr(_)
IntToStr(n) ==
    IF n < 10 THEN <<DigitSeq[n + 1]>>
    ELSE IntToStr(n \div 10) \o <<DigitSeq[(n % 10) + 1]>>

DigitVal(c) == CHOOSE d \in 0..9 : DigitSeq[d + 1] = c

\* int(s) for a text of decimal digits
RECURSIVE StrToInt(_)
StrToInt(s) ==
    IF s = <<>> THEN 0
    ELSE 10 * StrToInt(SubSeq(s, 1, Len(s) - 1)) + DigitVal(s[Len(s)])

\* dict[key] = value on a dict modelled as a function
Put(d, key, value) ==
    [k \in (DOMAIN d) \cup {key} |-> IF k = key THEN value ELSE d[k]]

(***************************************************************************)
(* tokenize: the alternation is tried in order at each position; OTHER     *)
(* tokens (whitespace and every unlisted character) are dropped, and a     *)
(* newline matches no alternative at all.                                  *)
(***************************************************************************)
Token(type, value) == [type |-> type, value |-> value]

\* STRING  "(?:\\.|[^"\\])*"  opened at i-1: the position after the closing
\* quote, 0 when the string is not closed
RECURSIVE StringEnd(_, _)
StringEnd(s, j) ==
    IF j > Len(s) THEN 0
    ELSE IF s[j] = "\"" THEN j + 1
    ELSE IF s[j] = "\\"
         THEN IF j + 1 <= Len(s) /\ s[j + 1] # "\n" THEN StringEnd(s, j + 2) ELSE 0
    ELSE StringEnd(s, j + 1)

\* NUMBER  \d+(\.\d*)?  starting at i: the position after it
NumberEnd(s, i) ==
    LET j == ScanWhile(s, i, Digits)
    IN  IF j <= Len(s) /\ s[j] = "." THEN ScanWhile(s, j + 1, Digits) ELSE j

PunctType(c) ==
    CASE c = "{" -> "LBRACE"
      [] c = "}" -> "RBRACE"
      [] c = "[" -> "LBRACKET"
      [] c = "]" -> "RBRACKET"
      [] c = ";" -> "SEMICOLON"
      [] c = "," -> "COMMA"
      [] c = "(" -> "LPAREN"
      [] c = ")" -> "RPAREN"
      [] c = "=" -> "ASSIGN"
      [] c = "." -> "DOT"
      [] OTHER -> "OTHER"

\* the match of the token pattern at position i: the token it yields (none
\* for a character that no alternative matches) and the position after it;
\* the scan goes on at the next character that is not white space, which
\* no alternative matches
MatchAt(text, i) ==
    CASE text[i] = "\"" /\ StringEnd(text, i + 1) # 0 ->
           LET e == StringEnd(text, i + 1)
           IN  [tok |-> <<Token("STRING", SubSeq(text, i, e - 1))>>, end |-> e]
      [] text[i] \in Digits ->
           LET e == NumberEnd(text, i)
           IN  [tok |-> <<Token("NUMBER", SubSeq(text, i, e - 1))>>, end |-> e]
      [] text[i] \in IdStart ->
           LET e == ScanWhile(text, i + 1, WordChars)
           IN  [tok |-> <<Token("ID", SubSeq(text, i, e - 1))>>, end |-> e]
      [] OTHER ->
           IF PunctType(text[i]) # "OTHER"
           THEN [tok |-> <<Token(PunctType(text[i]), <<text[i]>>)>>, end |-> i + 1]
           ELSE [tok |-> <<>>, end |-> i + 1]

RECURSIVE tokenize_from(_, _)
tokenize_from(text, i) ==
    IF i > Len(text) THEN <<>>
    ELSE MatchAt(text, i).tok
         \o tokenize_from(text, ScanWhile(text, MatchAt(text, i).end, Space))

tokenize(text) == tokenize_from(text, 1)

(***************************************************************************)
(* parse_typedef_structs.  A Field is (name, type, dims); dims = <<>> is   *)
(* Python's None.  A result carries err = TRUE when the code raises.       *)
(***************************************************************************)
Field(name, type, dims) == [name |-> name, type |-> type, dims |-> dims]

TokIs(tokens, pos, type) == pos <= Len(tokens) /\ tokens[pos].type = type

TokIsId(tokens, pos, word) == TokIs(tokens, pos, "ID") /\ tokens[pos].value = word

kw_typedef == <<"t", "y", "p", "e", "d", "e", "f">>

kw_struct == <<"s", "t", "r", "u", "c", "t">>

\* first position >= pos holding a SEMICOLON (Len+1 if none)
RECURSIVE ScanToSemicolon(_, _)
ScanToSemicolon(tokens, pos) ==
    IF pos <= Len(tokens) /\ tokens[pos].type # "SEMICOLON"
    THEN ScanToSemicolon(tokens, pos + 1) ELSE pos

\* the while loop that strips trailing [NUMBER] groups; int(float(v)) keeps
\* the digits before the decimal point
RECURSIVE StripDims(_, _)
StripDims(field_tokens, array_dims) ==
    LET n == Len(field_tokens)
    IN  IF /\ n >= 3
           /\ field_tokens[n - 2].type = "LBRACKET"
           /\ field_tokens[n - 1].type = "NUMBER"
           /\ field_tokens[n].type = "RBRACKET"
        THEN LET v == field_tokens[n - 1].value
                 dim == StrToInt(SubSeq(v, 1, ScanWhile(v, 1, Digits) - 1))
             IN  StripDims(SubSeq(field_tokens, 1, n - 3), <<dim>> \o array_dims)
        ELSE [toks |-> field_tokens, dims |-> array_dims]

TokenValues(tokens) == [i \in 1..Len(tokens) |-> tokens[i].value]

\* the loop over the field statements of one struct body
RECURSIVE ParseFieldList(_, _, _)
ParseFieldList(tokens, pos, fields) ==
    IF pos > Len(tokens) \/ tokens[pos].type = "RBRACE"
    THEN [err |-> FALSE, pos |-> pos, fields |-> fields]
    ELSE LET e == ScanToSemicolon(tokens, pos)
             field_tokens == SubSeq(tokens, pos, e - 1)
             next == IF e <= Len(tokens) THEN e + 1 ELSE e
         IN  IF field_tokens = <<>> THEN ParseFieldList(tokens, next, fields)
             ELSE LET st == StripDims(field_tokens, <<>>)
                      k == Len(st.toks)
                  IN  IF k = 0
                      THEN [err |-> TRUE, pos |-> next, fields |-> fields]
                      ELSE ParseFieldList(tokens, next,
                             Append(fields,
                               Field(st.toks[k].value,
                                     Strip(Join(<<" ">>,
                                        TokenValues(SubSeq(st.toks, 1, k - 1)))),
                                     st.dims)))

RECURSIVE parse_typedef_from(_, _, _)
parse_typedef_from(tokens, pos, structs) ==
    IF pos > Len(tokens) THEN [err |-> FALSE, exc |-> "", structs |-> structs]
    ELSE IF ~TokIsId(tokens, pos, kw_typedef)
         THEN parse_typedef_from(tokens, pos + 1, structs)
    ELSE IF ~TokIsId(tokens, pos + 1, kw_struct)
         THEN parse_typedef_from(tokens, pos + 2, structs)
    ELSE IF ~TokIs(tokens, pos + 2, "LBRACE")
         THEN parse_typedef_from(tokens, pos + 3, structs)
    ELSE LET fl == ParseFieldList(tokens, pos + 3, <<>>)
             p1 == IF TokIs(tokens, fl.pos, "RBRACE") THEN fl.pos + 1 ELSE fl.pos
             p2 == IF TokIs(tokens, p1 + 1, "SEMICOLON") THEN p1 + 2 ELSE p1 + 1
         IN  IF fl.err
             THEN [err |-> TRUE, exc |-> "IndexError", structs |-> structs]
             ELSE IF ~TokIs(tokens, p1, "ID")
             THEN [err |-> TRUE, exc |-> "ValueError", structs |-> structs]
             ELSE parse_typedef_from(tokens, p2,
                                     Put(structs, tokens[p1].value, fl.fields))

parse_typedef_structs(tokens) == parse_typedef_from(tokens, 1, <<>>)

(***************************************************************************)
(* flatten_struct_fields.  structs and explicit_mapping are dicts          *)
(* (functions from texts); an empty text is Python's falsy "".             *)
(***************************************************************************)
\* re.sub(r'\[\d+\]', '', path)
RECURSIVE normalize_path(_)
normalize_path(path) ==
    IF path = <<>> THEN <<>>
    ELSE LET e == ScanWhile(path, 2, Digits)
         IN  IF path[1] = "[" /\ e > 2 /\ e <= Len(path) /\ path[e] = "]"
             THEN normalize_path(From(path, e + 1))
             ELSE <<path[1]>> \o normalize_path(Tail(path))

\* cur.lstrip('_')
lstrip_underscore(cur) == From(cur, ScanWhile(cur, 1, {"_"}))

\* the generator gen_indices(dims, cur), as the list of what it yields
RECURSIVE gen_indices(_, _), gen_indices_loop(_, _, _)
gen_indices(dims, cur) ==
    IF dims = <<>> THEN <<lstrip_underscore(cur)>>
    ELSE gen_indices_loop(dims, cur, 0)

gen_indices_loop(dims, cur, j) ==
    IF j >= dims[1] THEN <<>>
    ELSE gen_indices(Tail(dims), cur \o <<"_">> \o IntToStr(j))
         \o gen_indices_loop(dims, cur, j + 1)

\* a variant of ArrayIndices that counts every dimension from 1
RECURSIVE OneBasedFrom(_, _)
OneBasedFrom(array_dims, j) ==
    IF j > array_dims[1] THEN <<>>
    ELSE (IF Len(array_dims) = 1 THEN <<IntToStr(j)>>
          ELSE LET inner == OneBasedFrom(Tail(array_dims), 1)
               IN  [i \in 1..Len(inner) |-> IntToStr(j) \o <<"_">> \o inner[i]])
         \o OneBasedFrom(array_dims, j + 1)

OneBasedIndices(array_dims) == OneBasedFrom(array_dims, 1)

\* the index texts a field with array_dims is expanded over
ArrayIndices(array_dims) ==
    IF Len(array_dims) = 1
    THEN [i \in 1..array_dims[1] |-> IntToStr(i - 1)]
    ELSE gen_indices(array_dims, <<>>)

\* a variant of NewOutputPrefix that keeps the parent prefix before an
\* override
PrefixedOverride(explicit_mapping, norm_path, field_name, output_prefix) ==
    LET current_output ==
            IF norm_path \in DOMAIN explicit_mapping THEN explicit_mapping[norm_path]
            ELSE IF field_name \in DOMAIN explicit_mapping
                 THEN explicit_mapping[field_name]
            ELSE field_name
    IN  IF output_prefix = <<>> THEN current_output
        ELSE output_prefix \o <<"_">> \o current_output

\* current_output and new_output_prefix of one field
NewOutputPrefix(explicit_mapping, norm_path, field_name, output_prefix) ==
    LET current_output ==
            IF norm_path \in DOMAIN explicit_mapping THEN explicit_mapping[norm_path]
            ELSE IF field_name \in DOMAIN explicit_mapping
                 THEN explicit_mapping[field_name]
            ELSE field_name
    IN  IF norm_path \in DOMAIN explicit_mapping \/ field_name \in DOMAIN explicit_mapping
        THEN current_output
        ELSE IF output_prefix = <<>> THEN current_output
        ELSE output_prefix \o <<"_">> \o current_output

RECURSIVE flatten_struct_fields(_, _, _, _, _)
RECURSIVE FlattenField(_, _, _, _, _)
RECURSIVE FlattenFrom(_, _, _, _, _, _)
RECURSIVE FlattenIndexed(_, _, _, _, _, _, _)

\* the body of the for loop, for one field
FlattenField(structs, f, source_prefix, output_prefix, explicit_mapping) ==
    LET full_source_path ==
            IF source_prefix = <<>> THEN f.name
            ELSE source_prefix \o <<".">> \o f.name
        norm_path == normalize_path(full_source_path)
        new_output_prefix ==
            NewOutputPrefix(explicit_mapping, norm_path, f.name, output_prefix)
        idxs == ArrayIndices(f.dims)
    IN  IF f.type \in DOMAIN structs
        THEN IF f.dims = <<>>
             THEN flatten_struct_fields(structs, f.type, full_source_path,
                                        new_output_prefix, explicit_mapping)
             ELSE FlattenIndexed(structs, f.type, full_source_path,
                                 new_output_prefix, explicit_mapping, idxs, 1)
        ELSE IF f.dims # <<>>
             THEN [i \in 1..Len(idxs) |-> new_output_prefix \o <<"_">> \o idxs[i]]
             ELSE <<new_output_prefix>>

\* the loops over the indices of an array of structs
FlattenIndexed(structs, type, full_source_path, new_output_prefix, explicit_mapping, idxs, i) ==
    IF i > Len(idxs) THEN <<>>
    ELSE flatten_struct_fields(structs, type,
                               full_source_path \o <<"[">> \o idxs[i] \o <<"]">>,
                               new_output_prefix \o <<"_">> \o idxs[i],
                               explicit_mapping)
         \o FlattenIndexed(structs, type, full_source_path, new_output_prefix,
                           explicit_mapping, idxs, i + 1)

FlattenFrom(structs, fields, k, source_prefix, output_prefix, explicit_mapping) ==
    IF k > Len(fields) THEN <<>>
    ELSE FlattenField(structs, fields[k], source_prefix, output_prefix,
                      explicit_mapping)
         \o FlattenFrom(structs, fields, k + 1, source_prefix, output_prefix,
                        explicit_mapping)

flatten_struct_fields(structs, struct_name, source_prefix, output_prefix, explicit_mapping) ==
    IF struct_name \notin DOMAIN structs THEN <<>>
    ELSE FlattenFrom(structs, structs[struct_name], 1, source_prefix,
                     output_prefix, explicit_mapping)

(***************************************************************************)
(* parse_view_structs: two regular expressions, on the characters.         *)
(***************************************************************************)
\* typedef\s+struct\s*{([^}]*)}\s*(\w+)\s*;  tried at position i
ViewTypedefMatch(s, i) ==
    LET a == i + Len(kw_typedef)
        b == ScanWhile(s, a, Space)
        c == ScanWhile(s, b + Len(kw_struct), Space)
        d == FindChar(s, c + 1, "}")
        e == ScanWhile(s, d + 1, Space)
        f == ScanWhile(s, e, WordChars)
        g == ScanWhile(s, f, Space)
        ok == /\ StartsAt(s, i, kw_typedef)
              /\ b > a
              /\ StartsAt(s, b, kw_struct)
              /\ c <= Len(s) /\ s[c] = "{"
              /\ d <= Len(s)
              /\ f > e
              /\ g <= Len(s) /\ s[g] = ";"
    IN  IF ok
        THEN [ok |-> TRUE, body |-> SubSeq(s, c + 1, d - 1),
              name |-> SubSeq(s, e, f - 1), end |-> g + 1]
        ELSE [ok |-> FALSE, body |-> <<>>, name |-> <<>>, end |-> i]

\* re.findall(pattern, content, re.DOTALL), from position i on
RECURSIVE ViewFindAll(_, _)
ViewFindAll(content, i) ==
    IF i > Len(content) THEN <<>>
    ELSE LET m == ViewTypedefMatch(content, i)
         IN  IF m.ok THEN <<m>> \o ViewFindAll(content, m.end)
             ELSE ViewFindAll(content, i + 1)

\* str.splitlines()
RECURSIVE SplitLines(_)
SplitLines(s) ==
    IF s = <<>> THEN <<>>
    ELSE LET e == FindChar(s, 1, "\n")
         IN  <<SubSeq(s, 1, e - 1)>> \o SplitLines(From(s, e + 1))

\* re.match(r'(\w+)\s+(\w+)(\s*\[\s*(\d+)\s*\])?;', line)
ViewFieldMatch(line) ==
    LET a == ScanWhile(line, 1, WordChars)
        b == ScanWhile(line, a, Space)
        c == ScanWhile(line, b, WordChars)
        g1 == ScanWhile(line, c, Space)
        g2 == ScanWhile(line, g1 + 1, Space)
        g3 == ScanWhile(line, g2, Digits)
        g4 == ScanWhile(line, g3, Space)
        words == a > 1 /\ b > a /\ c > b
        group == /\ g1 <= Len(line) /\ line[g1] = "["
                 /\ g3 > g2
                 /\ g4 <= Len(line) /\ line[g4] = "]"
                 /\ g4 + 1 <= Len(line) /\ line[g4 + 1] = ";"
    IN  IF words /\ group
        THEN [ok |-> TRUE,
              field |-> Field(SubSeq(line, b, c - 1), SubSeq(line, 1, a - 1),
                              <<StrToInt(SubSeq(line, g2, g3 - 1))>>)]
        ELSE IF words /\ c <= Len(line) /\ line[c] = ";"
        THEN [ok |-> TRUE,
              field |-> Field(SubSeq(line, b, c - 1), SubSeq(line, 1, a - 1), <<>>)]
        ELSE [ok |-> FALSE, field |-> Field(<<>>, <<>>, <<>>)]

\* the loop over body.splitlines()
RECURSIVE ViewFields(_, _)
ViewFields(lines, k) ==
    IF k > Len(lines) THEN <<>>
    ELSE LET line == Strip(lines[k])
             m == ViewFieldMatch(line)
         IN  IF line = <<>> \/ StartsAt(line, 1, <<"/", "/">>) \/ ~m.ok
             THEN ViewFields(lines, k + 1)
             ELSE <<m.field>> \o ViewFields(lines, k + 1)

RECURSIVE ViewStructsFrom(_, _, _)
ViewStructsFrom(matches, k, view_structs) ==
    IF k > Len(matches) THEN view_structs
    ELSE ViewStructsFrom(matches, k + 1,
            Put(view_structs, matches[k].name,
                ViewFields(SplitLines(matches[k].body), 1)))

parse_view_structs(content) == ViewStructsFrom(ViewFindAll(content, 1), 1, <<>>)

(***************************************************************************)
(* build_view_tree.  A view tree is a str (kind "str"), a dict of fields   *)
(* in insertion order (kind "dict"), or the dict {"array": size, "fields": *)
(* subtree} of an array field (kind "array").                              *)
(***************************************************************************)
ViewLeaf(type) == [kind |-> "str", type |-> type]

ViewDict(entries) == [kind |-> "dict", entries |-> entries]

ViewArray(size, subtree) == [kind |-> "array", size |-> size, fields |-> subtree]

\* tree[key] = sub on an ordered dict: a new key goes last, a known key keeps
\* its place
PutOrdered(entries, key, sub) ==
    IF \E i \in 1..Len(entries) : entries[i].key = key
    THEN [i \in 1..Len(entries) |->
            IF entries[i].key = key THEN [key |-> key, sub |-> sub] ELSE entries[i]]
    ELSE Append(entries, [key |-> key, sub |-> sub])

RECURSIVE build_view_tree(_, _), BuildViewFields(_, _, _, _)
build_view_tree(view_defs, struct_name) ==
    IF struct_name \notin DOMAIN view_defs THEN ViewLeaf(struct_name)
    ELSE ViewDict(BuildViewFields(view_defs, view_defs[struct_name], 1, <<>>))

BuildViewFields(view_defs, fields, k, tree) ==
    IF k > Len(fields) THEN tree
    ELSE LET f == fields[k]
             subtree == IF f.type \in DOMAIN view_defs
                        THEN build_view_tree(view_defs, f.type)
                        ELSE ViewLeaf(f.type)
             node == IF f.dims # <<>> THEN ViewArray(f.dims[1], subtree) ELSE subtree
         IN  BuildViewFields(view_defs, fields, k + 1, PutOrdered(tree, f.name, node))

(***************************************************************************)
(* load_mapping: "key: value" lines.                                       *)
(***************************************************************************)
RECURSIVE MappingFrom(_, _, _)
MappingFrom(lines, k, explicit_mapping) ==
    IF k > Len(lines) THEN explicit_mapping
    ELSE LET line == Strip(lines[k])
             c == FindChar(line, 1, ":")
         IN  IF line # <<>> /\ line[1] # "#" /\ c <= Len(line)
             THEN MappingFrom(lines, k + 1,
                    Put(explicit_mapping, Strip(SubSeq(line, 1, c - 1)),
                        Strip(From(line, c + 1))))
             ELSE MappingFrom(lines, k + 1, explicit_mapping)

parse_mapping(content) == MappingFrom(SplitLines(content), 1, <<>>)

(***************************************************************************)
(* parse_initialization and flatten_initialization.  A literal node is a   *)
(* list of nodes or a scalar text.                                         *)
(***************************************************************************)
LitList(items) == [isList |-> TRUE, items |-> items, text |-> <<>>]

LitScalar(text) == [isList |-> FALSE, items |-> <<>>, text |-> text]

\* the first position >= i where lit starts (Len(s)+1 if none)
RECURSIVE FindSub(_, _, _)
FindSub(s, i, lit) ==
    IF i > Len(s) \/ StartsAt(s, i, lit) THEN i ELSE FindSub(s, i + 1, lit)

\* re.sub(r'//.*?\n|/\*.*?\*/', '', text, flags=re.S), from position i on
RECURSIVE StripComments(_, _)
StripComments(s, i) ==
    LET j == FindChar(s, i, "/")
    IN  IF j > Len(s) THEN From(s, i)
        ELSE SubSeq(s, i, j - 1) \o
             (IF StartsAt(s, j, <<"/", "/">>) /\ FindChar(s, j + 2, "\n") <= Len(s)
              THEN StripComments(s, FindChar(s, j + 2, "\n") + 1)
              ELSE IF StartsAt(s, j, <<"/", "*">>) /\ FindSub(s, j + 2, <<"*", "/">>) <= Len(s)
                   THEN StripComments(s, FindSub(s, j + 2, <<"*", "/">>) + 2)
              ELSE <<"/">> \o StripComments(s, j + 1))

ScalarTypes == {"NUMBER", "ID", "DOT", "STRING"}

RECURSIVE parse_block(_, _), ParseItems(_, _, _)
parse_block(tokens, pos) ==
    IF TokIs(tokens, pos, "LBRACE")
    THEN LET r == ParseItems(tokens, pos + 1, <<>>)
         IN  [err |-> FALSE, node |-> LitList(r.items),
              pos |-> IF TokIs(tokens, r.pos, "RBRACE") THEN r.pos + 1 ELSE r.pos]
    ELSE IF pos > Len(tokens)
         THEN [err |-> TRUE, node |-> LitScalar(<<>>), pos |-> pos]
         ELSE [err |-> FALSE, node |-> LitScalar(tokens[pos].value), pos |-> pos + 1]

\* the while loop of parse_block
ParseItems(tokens, pos, result) ==
    IF pos > Len(tokens) \/ tokens[pos].type = "RBRACE"
    THEN [items |-> result, pos |-> pos]
    ELSE IF tokens[pos].type = "LBRACE"
         THEN LET b == parse_block(tokens, pos)
              IN  ParseItems(tokens, b.pos, Append(result, b.node))
    ELSE IF tokens[pos].type \in ScalarTypes
         THEN ParseItems(tokens, pos + 1, Append(result, LitScalar(tokens[pos].value)))
    ELSE ParseItems(tokens, pos + 1, result)

parse_initialization(init_text) == parse_block(tokenize(StripComments(init_text, 1)), 1)

RECURSIVE flatten_initialization(_), FlattenItems(_, _)
flatten_initialization(init_structure) ==
    IF init_structure.isList THEN FlattenItems(init_structure.items, 1)
    ELSE <<init_structure.text>>

FlattenItems(items, k) ==
    IF k > Len(items) THEN <<>>
    ELSE flatten_initialization(items[k]) \o FlattenItems(items, k + 1)

(***************************************************************************)
(* generate_field_map.  A map value is one text (kind "str") or a list of  *)
(* texts (kind "list").                                                    *)
(***************************************************************************)
StrVal(text) == [kind |-> "str", text |-> text, list |-> <<>>]

ListVal(list) == [kind |-> "list", text |-> <<>>, list |-> list]

\* re.match(r'(.+?)_(\d+)$', field): the position of the "_" that ends group 1,
\* 0 when the field does not match
IndexSuffixAt(field) ==
    LET cand == {k \in 2..(Len(field) - 1) :
                    /\ field[k] = "_"
                    /\ \A j \in (k + 1)..Len(field) : field[j] \in Digits}
    IN  IF cand = {} THEN 0 ELSE CHOOSE k \in cand : \A j \in cand : k <= j

\* the loop over field_names, then the loop that stores the grouped values
RECURSIVE FieldMapLoop(_, _, _, _, _)
FieldMapLoop(field_names, init_values, index, result, temp_array) ==
    IF index > Len(field_names) \/ index > Len(init_values)
    THEN [k \in (DOMAIN result) \cup (DOMAIN temp_array) |->
            IF k \in DOMAIN temp_array THEN ListVal(temp_array[k]) ELSE result[k]]
    ELSE LET field == field_names[index]
             u == IndexSuffixAt(field)
             base == SubSeq(field, 1, u - 1)
         IN  IF u # 0
             THEN FieldMapLoop(field_names, init_values, index + 1, result,
                    Put(temp_array, base,
                        (IF base \in DOMAIN temp_array THEN temp_array[base] ELSE <<>>)
                        \o <<init_values[index]>>))
             ELSE FieldMapLoop(field_names, init_values, index + 1,
                    Put(result, field, StrVal(init_values[index])), temp_array)

generate_field_map(field_names, init_values) ==
    FieldMapLoop(field_names, init_values, 1, <<>>, <<>>)

(***************************************************************************)
(* generate_nested_initializer.  The result is a map value, or kind "err"  *)
(* when the code raises (str.join over a part that is not a text).         *)
(***************************************************************************)
ErrVal == [kind |-> "err", text |-> <<>>, list |-> <<>>]

\* a variant of Zero: field_map[prefix] on an absent key raises KeyError
KeyErrorOnMissing == [kind |-> "err", text |-> <<>>, list |-> <<>>]

Zero == StrVal(<<"0">>)

\* "{" + ", ".join(parts) + "}"
Braced(parts) ==
    IF \E i \in 1..Len(parts) : parts[i].kind # "str" THEN ErrVal
    ELSE StrVal(<<"{">> \o Join(<<",", " ">>, [i \in 1..Len(parts) |-> parts[i].text])
                \o <<"}">>)

kw_array == <<"a", "r", "r", "a", "y">>

kw_fields == <<"f", "i", "e", "l", "d", "s">>

HasKey(entries, key) == \E i \in 1..Len(entries) : entries[i].key = key

\* isinstance(sub, dict) and "array" in sub and "fields" in sub
IsArrayDict(sub) ==
    \/ sub.kind = "array"
    \/ sub.kind = "dict" /\ HasKey(sub.entries, kw_array) /\ HasKey(sub.entries, kw_fields)

RECURSIVE generate_nested_initializer(_, _, _), GenParts(_, _, _, _), GenElems(_, _, _, _, _)
generate_nested_initializer(view_tree, field_map, prefix) ==
    IF view_tree.kind = "str"
    THEN IF prefix \in DOMAIN field_map THEN field_map[prefix] ELSE Zero
    ELSE IF view_tree.kind = "dict"
    THEN Braced(GenParts(view_tree.entries, field_map, prefix, 1))
    ELSE Zero

\* the loop over view_tree.items()
GenParts(entries, field_map, prefix, k) ==
    IF k > Len(entries) THEN <<>>
    ELSE LET key == entries[k].key
             sub == entries[k].sub
             full_key == IF prefix = <<>> THEN key ELSE prefix \o <<"_">> \o key
             part == IF IsArrayDict(sub)
                     THEN IF sub.kind = "array"
                          THEN Braced(GenElems(sub.fields, field_map, full_key, sub.size, 0))
                          ELSE ErrVal
                     ELSE IF full_key \in DOMAIN field_map THEN field_map[full_key]
                     ELSE generate_nested_initializer(sub, field_map, full_key)
         IN  <<part>> \o GenParts(entries, field_map, prefix, k + 1)

\* the loop over range(size)
GenElems(fields, field_map, full_key, size, i) ==
    IF i >= size THEN <<>>
    ELSE LET elem_key == full_key \o <<"_">> \o IntToStr(i)
             elem == IF elem_key \in DOMAIN field_map THEN field_map[elem_key]
                     ELSE generate_nested_initializer(fields, field_map, elem_key)
         IN  <<elem>> \o GenElems(fields, field_map, full_key, size, i + 1)

(***************************************************************************)
(* check_structure_type and process_structure.                             *)
(***************************************************************************)
\* a variant of check_structure_type that lets a literal one value short pass
check_off_by_one(structs, target_struct, explicit_mapping, flat_values) ==
    LET expected == Len(flatten_struct_fields(structs, target_struct, <<>>, <<>>,
                                              explicit_mapping))
    IN  ~(Len(flat_values) + 1 < expected)

\* a variant of check_structure_type that wants the exact count of values
check_exact_count(structs, target_struct, explicit_mapping, flat_values) ==
    LET expected == Len(flatten_struct_fields(structs, target_struct, <<>>, <<>>,
                                              explicit_mapping))
    IN  Len(flat_values) = expected

check_structure_type(structs, target_struct, explicit_mapping, flat_values) ==
    LET expected == Len(flatten_struct_fields(structs, target_struct, <<>>, <<>>,
                                              explicit_mapping))
    IN  ~(Len(flat_values) < expected)

\* one instance through the chain: flat names, field map, nested initializer
RenderInstance(structs, target_struct, explicit_mapping, view_tree, flat_values) ==
    generate_nested_initializer(
        view_tree,
        generate_field_map(
            flatten_struct_fields(structs, target_struct, <<>>, <<>>, explicit_mapping),
            flat_values),
        <<>>)

\* the loop over the elements of a top-level array: the rendered elements
\* that pass check_structure_type
RECURSIVE ResultItems(_, _, _, _, _, _)
ResultItems(structs, target_struct, explicit_mapping, view_tree, items, k) ==
    IF k > Len(items) THEN <<>>
    ELSE LET flat_values == flatten_initialization(items[k])
             rest == ResultItems(structs, target_struct, explicit_mapping, view_tree,
                                 items, k + 1)
         IN  IF ~check_structure_type(structs, target_struct, explicit_mapping,
                                      flat_values)
             THEN rest
             ELSE <<RenderInstance(structs, target_struct, explicit_mapping,
                                   view_tree, flat_values)>> \o rest

\* parsed is a list whose first element is a list
IsArrayOfStructs(parsed) ==
    parsed.isList /\ parsed.items # <<>> /\ parsed.items[1].isList

\* the value returned (kind "err" when the call raises) and self.flat_fields
\* after the call
process_structure(structs, target_struct, explicit_mapping, view_tree, flat_fields, init_block) ==
    LET p == parse_initialization(init_block)
        parsed == p.node
        names == flatten_struct_fields(structs, target_struct, <<>>, <<>>,
                                       explicit_mapping)
    IN  IF p.err THEN [ret |-> ErrVal, flat_fields |-> flat_fields]
        ELSE IF IsArrayOfStructs(parsed)
        THEN LET result_items == ResultItems(structs, target_struct, explicit_mapping,
                                             view_tree, parsed.items, 1)
             IN  [ret |-> IF \E i \in 1..Len(result_items) : result_items[i].kind # "str"
                          THEN ErrVal
                          ELSE StrVal(<<"{", "\n">>
                                 \o Join(<<",", "\n">>,
                                      [i \in 1..Len(result_items) |-> result_items[i].text])
                                 \o <<"\n", "}">>),
                  flat_fields |-> IF result_items = <<>> THEN flat_fields ELSE names]
        ELSE LET flat_values == flatten_initialization(parsed)
             IN  IF ~check_structure_type(structs, target_struct, explicit_mapping,
                                          flat_values)
                 THEN [ret |-> StrVal(<<>>), flat_fields |-> flat_fields]
                 ELSE [ret |-> RenderInstance(structs, target_struct, explicit_mapping,
                                              view_tree, flat_values),
                       flat_fields |-> names]

(***************************************************************************)
(* extract_declaration_info and extract_init_declarations_from_text share  *)
(* one pattern, matched with re.S | re.M.                                  *)
(***************************************************************************)
\* pattern: ^((?:\w+\s+)*)TARGET\s+(\w+)\s*(\[\s*(\d*)\s*\])?\s*=\s*(\{.*?\})\s*;
\* the positions where 0, 1, 2, ... groups \w+\s+ starting at i end
RECURSIVE SpecGroupEnds(_, _)
SpecGroupEnds(s, i) ==
    LET a == ScanWhile(s, i, WordChars)
        b == ScanWhile(s, a, Space)
    IN  IF a > i /\ b > a THEN <<i>> \o SpecGroupEnds(s, b) ELSE <<i>>

\* the first position j >= i with s[j] = "}" followed by \s*; (0 if none)
RECURSIVE InitEnd(_, _)
InitEnd(s, i) ==
    LET j == FindChar(s, i, "}")
        k == ScanWhile(s, j + 1, Space)
    IN  IF j > Len(s) THEN 0
        ELSE IF k <= Len(s) /\ s[k] = ";" THEN j
        ELSE InitEnd(s, j + 1)

NoDecl ==
    [ok |-> FALSE, spec |-> <<>>, var |-> <<>>, brackets |-> FALSE, size |-> <<>>,
     init |-> <<>>, end |-> 0]

\* the rest of the pattern after the specifier groups, tried with the target
\* name at position p; the match started at position i
DeclTail(s, i, p, target_struct) ==
    LET a == p + Len(target_struct)
        b == ScanWhile(s, a, Space)
        c == ScanWhile(s, b, WordChars)
        g1 == ScanWhile(s, c, Space)
        g2 == ScanWhile(s, g1 + 1, Space)
        g3 == ScanWhile(s, g2, Digits)
        g4 == ScanWhile(s, g3, Space)
        brackets == /\ g1 <= Len(s) /\ s[g1] = "["
                    /\ g4 <= Len(s) /\ s[g4] = "]"
        d == ScanWhile(s, IF brackets THEN g4 + 1 ELSE c, Space)
        e == ScanWhile(s, d + 1, Space)
        f == InitEnd(s, e + 1)
        g == ScanWhile(s, f + 1, Space)
        ok == /\ StartsAt(s, p, target_struct)
              /\ b > a
              /\ c > b
              /\ d <= Len(s) /\ s[d] = "="
              /\ e <= Len(s) /\ s[e] = "{"
              /\ f # 0
    IN  IF ok
        THEN [ok |-> TRUE, spec |-> Strip(SubSeq(s, i, p - 1)),
              var |-> SubSeq(s, b, c - 1), brackets |-> brackets,
              size |-> IF brackets THEN SubSeq(s, g2, g3 - 1) ELSE <<>>,
              init |-> SubSeq(s, e, f), end |-> g + 1]
        ELSE NoDecl

\* the match that starts at position i: the specifier groups are greedy and
\* given back one at a time
RECURSIVE DeclTryGroups(_, _, _, _, _)
DeclTryGroups(s, i, ends, n, target_struct) ==
    IF n = 0 THEN NoDecl
    ELSE LET m == DeclTail(s, i, ends[n], target_struct)
         IN  IF m.ok THEN m ELSE DeclTryGroups(s, i, ends, n - 1, target_struct)

DeclMatchAt(s, i, target_struct) ==
    IF i = 1 \/ s[i - 1] = "\n"
    THEN LET ends == SpecGroupEnds(s, i)
         IN  DeclTryGroups(s, i, ends, Len(ends), target_struct)
    ELSE NoDecl

\* re.search(pattern, text) from position i on
RECURSIVE DeclSearch(_, _, _)
DeclSearch(s, i, target_struct) ==
    IF i > Len(s) + 1 THEN NoDecl
    ELSE LET m == DeclMatchAt(s, i, target_struct)
         IN  IF m.ok THEN m ELSE DeclSearch(s, i + 1, target_struct)

\* re.finditer(pattern, text): every match, left to right, not overlapping
RECURSIVE DeclFindAll(_, _, _)
DeclFindAll(s, i, target_struct) ==
    LET m == DeclSearch(s, i, target_struct)
    IN  IF m.ok THEN <<m>> \o DeclFindAll(s, m.end, target_struct) ELSE <<>>

\* array_size: None, "[]" or the digits
ArraySize(m) ==
    IF ~m.brackets THEN [none |-> TRUE, text |-> <<>>]
    ELSE IF m.size = <<>> THEN [none |-> FALSE, text |-> <<"[", "]">>]
    ELSE [none |-> FALSE, text |-> m.size]

(***************************************************************************)
(* generate_declaration, and the declaration main() of mass_process builds.*)
(***************************************************************************)
\* var_name followed by the array suffix
Declarator(var_name, array_size) ==
    IF array_size.none THEN var_name
    ELSE IF array_size.text = <<"[", "]">> THEN var_name \o <<"[", "]">>
    ELSE var_name \o <<"[">> \o array_size.text \o <<"]">>

generate_declaration(prefix, target_struct, array_size, postfix, init_str, var_name) ==
    prefix \o <<" ">> \o target_struct \o <<" ">> \o Declarator(var_name, array_size)
    \o postfix \o <<" ", "=", " ">> \o init_str \o <<";">>

kw_const == <<"c", "o", "n", "s", "t">>

\* full_decl.strip() of main()
full_decl(spec, struct, var_name, array_size, specifier, processed_block) ==
    Strip(spec \o <<" ">> \o kw_const \o <<" ">> \o struct \o <<" ">>
          \o Declarator(var_name, array_size)
          \o (IF specifier # <<>> THEN <<" ">> \o specifier ELSE <<>>)
          \o <<" ", "=", " ">> \o processed_block \o <<";">>)

(***************************************************************************)
(* update_output_file of mass_process.  A file is [none, text]: none when  *)
(* it does not exist.                                                      *)
(***************************************************************************)
\* the first position >= i of s whose character is whitespace (Len(s)+1 if
\* none): where a greedy \S* starting at i ends
RECURSIVE ScanNonSpace(_, _)
ScanNonSpace(s, i) ==
    IF i <= Len(s) /\ s[i] \notin Space THEN ScanNonSpace(s, i + 1) ELSE i

\* the lazy .*? before \}\s*; : the position after the ";" of the first "}"
\* at or after j that whitespace and ";" follow, 0 if there is none
RECURSIVE CloseEnd(_, _)
CloseEnd(s, j) ==
    IF j > Len(s) THEN 0
    ELSE LET k == ScanWhile(s, j + 1, Space)
         IN  IF s[j] = "}" /\ k <= Len(s) /\ s[k] = ";" THEN k + 1
             ELSE CloseEnd(s, j + 1)

\* const\s+\S+\s+VAR\s*(?:\[[^\]]*\])?\s*=\s*\{.*?\}\s*;  tried at position
\* i: the position after the match, 0 if there is none
OutMatchEnd(s, i, var) ==
    LET a == i + Len(kw_const)
        b == ScanWhile(s, a, Space)
        c == ScanNonSpace(s, b)
        d == ScanWhile(s, c, Space)
        e == d + Len(var)
        f == ScanWhile(s, e, Space)
        close == FindChar(s, f + 1, "]")
        g == IF f <= Len(s) /\ s[f] = "[" /\ close <= Len(s) THEN close + 1 ELSE f
        h == ScanWhile(s, g, Space)
        o == ScanWhile(s, h + 1, Space)
    IN  IF /\ StartsAt(s, i, kw_const)
           /\ b > a /\ c > b /\ d > c
           /\ StartsAt(s, d, var)
           /\ h <= Len(s) /\ s[h] = "="
           /\ o <= Len(s) /\ s[o] = "{"
        THEN CloseEnd(s, o + 1)
        ELSE 0

\* re.search(pattern, content): some position matches
OutSearch(content, var) ==
    \E i \in 1..Len(content) : OutMatchEnd(content, i, var) # 0

\* re.sub(pattern, decl, content) from position i on: every match, left to
\* right and without overlap, gives way to decl (a text without backslashes)
RECURSIVE OutSub(_, _, _, _)
OutSub(content, i, var, decl) ==
    IF i > Len(content) THEN <<>>
    ELSE LET e == OutMatchEnd(content, i, var)
         IN  IF e # 0 THEN decl \o OutSub(content, e, var, decl)
             ELSE <<content[i]>> \o OutSub(content, i + 1, var, decl)

\* the loop over new_decls.items()
RECURSIVE UpdateFrom(_, _, _)
UpdateFrom(new_decls, k, content) ==
    IF k > Len(new_decls) THEN content
    ELSE UpdateFrom(new_decls, k + 1,
            IF OutSearch(content, new_decls[k].key)
            THEN OutSub(content, 1, new_decls[k].key, new_decls[k].sub)
            ELSE content \o <<"\n">> \o new_decls[k].sub \o <<"\n">>)

\* the content written to the output file
update_output_file(new_decls, output_file) ==
    UpdateFrom(new_decls, 1, IF output_file.none THEN <<>> ELSE output_file.text)

(***************************************************************************)
(* The input files explored: texts written from a bounded family of        *)
(* schemas, views, mapping tables and initializer statements.              *)
(***************************************************************************)
n_int == <<"i", "n", "t">>

n_inner == <<"i", "n", "n", "e", "r">>

n_outer == <<"o", "u", "t", "e", "r">>

n_other == <<"o", "t", "h", "e", "r">>

n_renamed == <<"r", "e", "n", "a", "m", "e", "d">>

\* the nested struct of the family: struct { int b; int c; } inner
InnerFields == <<Field(<<"b">>, n_int, <<>>), Field(<<"c">>, n_int, <<>>)>>

\* names of the scalar int fields around the field "a" under study
FillerNames == <<<<"x">>, <<"y">>, <<"z">>, <<"u">>>>

\* type and dims of the field "a": a primitive or the nested struct; a
\* scalar, a one-dimensional or a two-dimensional array
FieldKinds ==
    {[type |-> t, dims |-> d] :
        t \in {n_int, n_inner},
        d \in {<<>>} \cup {<<n>> : n \in 1..MaxDim}
                     \cup {<<n, m>> : n \in 2..MaxDim, m \in 2..MaxDim}}

\* the target struct: n fields, the p-th is "a" of kind k, the others are
\* scalar ints
SchemaFields(n, p, k) ==
    [i \in 1..n |-> IF i = p THEN Field(<<"a">>, k.type, k.dims)
                    ELSE Field(FillerNames[i], n_int, <<>>)]

Schemas == {SchemaFields(n, p, k) : n \in 1..MaxFields, p \in 1..MaxFields, k \in FieldKinds}

RECURSIVE Concat(_)
Concat(texts) == IF texts = <<>> THEN <<>> ELSE texts[1] \o Concat(Tail(texts))

RECURSIVE Product(_)
Product(dims) == IF dims = <<>> THEN 1 ELSE dims[1] * Product(Tail(dims))

\* "type name[n][m];"
FieldText(f) ==
    f.type \o <<" ">> \o f.name
    \o Concat([i \in 1..Len(f.dims) |-> <<"[">> \o IntToStr(f.dims[i]) \o <<"]">>])
    \o <<";">>

\* a typedef on one line, or with one field per line
StructText(name, fields, oneline) ==
    kw_typedef \o <<" ">> \o kw_struct \o <<" ", "{">>
    \o (IF oneline
        THEN <<" ">> \o Concat([i \in 1..Len(fields) |-> FieldText(fields[i]) \o <<" ">>])
        ELSE <<"\n">> \o Concat([i \in 1..Len(fields) |->
                                   <<" ">> \o FieldText(fields[i]) \o <<"\n">>]))
    \o <<"}", " ">> \o name \o <<";">>

UsesInner(fields) == \E i \in 1..Len(fields) : fields[i].type = n_inner

\* the header file of a schema: inner is declared when it is used
HeaderText(fields, oneline) ==
    (IF UsesInner(fields) THEN StructText(n_inner, InnerFields, oneline) \o <<"\n">>
     ELSE <<>>)
    \o StructText(n_outer, fields, oneline) \o <<"\n">>

\* a literal tree written as text: "{1, {2, 3}}"
RECURSIVE LitText(_)
LitText(node) ==
    IF node.isList
    THEN <<"{">> \o Join(<<",", " ">>, [i \in 1..Len(node.items) |-> LitText(node.items[i])])
         \o <<"}">>
    ELSE node.text

\* the k values off+1 .. off+k in one brace pair
FlatLit(off, k) == LitList([i \in 1..k |-> LitScalar(IntToStr(off + i))])

ElemLeaves(type) == IF type = n_inner THEN Len(InnerFields) ELSE 1

FieldLeaves(f) == Product(f.dims) * ElemLeaves(f.type)

RECURSIVE SchemaLeaves(_)
SchemaLeaves(fields) ==
    IF fields = <<>> THEN 0 ELSE FieldLeaves(fields[1]) + SchemaLeaves(Tail(fields))

\* the fully braced literal of one field, its values numbered from off+1
RECURSIVE NestedField(_, _, _)
NestedField(type, dims, off) ==
    IF dims = <<>>
    THEN IF type = n_inner THEN FlatLit(off, ElemLeaves(type))
         ELSE LitScalar(IntToStr(off + 1))
    ELSE LitList([i \in 1..dims[1] |->
            NestedField(type, Tail(dims),
                        off + (i - 1) * Product(Tail(dims)) * ElemLeaves(type))])

\* the fully braced literal of a schema
NestedLit(fields) ==
    LitList([i \in 1..Len(fields) |->
        NestedField(fields[i].type, fields[i].dims,
                    SchemaLeaves(SubSeq(fields, 1, i - 1)))])

\* the sequences of length 1..MaxInst over {0, 1}: which instances of a
\* batch are one value short
ShortPatterns == UNION {[1..n -> {0, 1}] : n \in 1..MaxInst}

\* instance i of a batch: the schema's leaf count of values, or one less
BatchLit(fields, short, i) ==
    FlatLit((i - 1) * SchemaLeaves(fields), SchemaLeaves(fields) - short[i])

kw_static == <<"s", "t", "a", "t", "i", "c">>

\* "[specifiers ]type var[size] = literal;"
DeclText(spec, type, var, size, lit) ==
    (IF spec = <<>> THEN <<>> ELSE spec \o <<" ">>)
    \o type \o <<" ">> \o var \o size \o <<" ", "=", " ">> \o lit \o <<";", "\n">>

VarNames == <<<<"p">>, <<"q">>, <<"r">>, <<"s">>>>

\* the initializer files of a schema
InitTexts(fields) ==
    LET N == SchemaLeaves(fields)
    IN  \* one instance, flat: one value short, exact, one value in excess
        {DeclText(<<>>, n_outer, <<"o">>, <<>>, LitText(FlatLit(0, k))) :
            k \in {N - 1, N, N + 1}}
        \* one instance, fully braced
        \cup {DeclText(kw_static \o <<" ">> \o kw_const, n_outer, <<"o">>, <<>>,
                       LitText(NestedLit(fields)))}
        \* a top-level array of instances
        \cup {DeclText(kw_const, n_outer, <<"t">>,
                       <<"[">> \o IntToStr(Len(short)) \o <<"]">>,
                       LitText(LitList([i \in 1..Len(short) |->
                                           BatchLit(fields, short, i)]))) :
                short \in ShortPatterns}
        \* several statements, one instance each
        \cup {Concat([i \in 1..Len(short) |->
                        DeclText(<<>>, n_outer, VarNames[i], <<>>,
                                 LitText(BatchLit(fields, short, i)))]) :
                short \in ShortPatterns}
        \* no statement for the requested type
        \cup {DeclText(<<>>, n_other, <<"o">>, <<>>, LitText(FlatLit(0, N)))}

\* the mapping files: none, an entry for the path a.b, an entry for the bare
\* name c, entries for both the path a.b and the bare name b
NoFile == [none |-> TRUE, text |-> <<>>]

File(text) == [none |-> FALSE, text |-> text]

MappingPath ==
    File(<<"#", " ", "m", "\n">> \o <<"a", ".", "b", ":", " ">> \o n_renamed \o <<"\n">>)

MappingBare == File(<<"c", " ", ":">> \o n_renamed \o <<"\n">>)

\* an entry for the path a.b and an entry for the bare name b
MappingBoth ==
    File(<<"a", ".", "b", ":", " ">> \o n_renamed \o <<"\n">>
         \o <<"b", ":", " ">> \o n_other \o <<"\n">>)

\* the view of a schema with one more leaf, "int w;", that the schema lacks
ExtraView(fields) == Append(fields, Field(<<"w">>, n_int, <<>>))

Inputs(prog, header, view, mapping, init) ==
    [prog |-> prog, header_file |-> header, view_file |-> view,
     mapping_file |-> mapping, init_text |-> init,
     target_struct |-> n_outer, target_view |-> n_outer]

\* the runs explored for one schema
SchemaInputs(fields) ==
    LET multi == HeaderText(fields, FALSE)
        one == HeaderText(fields, TRUE)
    IN  {Inputs("single", multi, multi, NoFile, t) : t \in InitTexts(fields)}
        \cup {Inputs("single", one, one, NoFile, t) : t \in InitTexts(fields)}
        \cup {Inputs("single", multi, HeaderText(ExtraView(fields), FALSE), NoFile, t) :
                t \in InitTexts(fields)}
        \cup {Inputs("single", multi, multi, m, t) :
                m \in {MappingPath, MappingBare, MappingBoth}, t \in InitTexts(fields)}
        \cup {Inputs("mass", multi, multi, NoFile, t) : t \in InitTexts(fields)}

(***************************************************************************)
(* The examples of the documentation, character for character.             *)
(***************************************************************************)
n_point == <<"p", "o", "i", "n", "t">>

n_box == <<"b", "o", "x">>

PointFields == <<Field(<<"x">>, n_int, <<>>), Field(<<"y">>, n_int, <<>>)>>

\* typedef struct { int x; int y; } point;
PointHeader == StructText(n_point, PointFields, TRUE)

\* point p = {1, 2};
PointInit ==
    n_point \o <<" ", "p", " ", "=", " ", "{", "1", ",", " ", "2", "}", ";">>

\* typedef struct { int v[3]; } box;
BoxHeader == StructText(n_box, <<Field(<<"v">>, n_int, <<3>>)>>, TRUE)

\* box b[1] = {{ {1,2,3} }};
BoxInit ==
    n_box \o <<" ", "b", "[", "1", "]", " ", "=", " ", "{", "{", " ", "{", "1", ",",
               "2", ",", "3", "}", " ", "}", "}", ";">>

PointExample ==
    [prog |-> "single", header_file |-> PointHeader, view_file |-> PointHeader,
     mapping_file |-> NoFile, init_text |-> PointInit,
     target_struct |-> n_point, target_view |-> n_point]

BoxExample ==
    [prog |-> "single", header_file |-> BoxHeader, view_file |-> BoxHeader,
     mapping_file |-> NoFile, init_text |-> BoxInit,
     target_struct |-> n_box, target_view |-> n_box]

Examples == {PointExample, BoxExample}

\* the output file before main() runs: absent, or holding a declaration of
\* the variable p written earlier
OutputFiles ==
    {NoFile,
     File(<<"/", "/", " ", "v", "\n">>
          \o DeclText(kw_static \o <<" ">> \o kw_const, n_outer, <<"p">>, <<>>,
                      LitText(FlatLit(8, 1))))}

\* the scalar values an initializer may hold: a number, a number with a
\* fraction, a negative number, an identifier, a dotted identifier, a string
LiteralKinds ==
    {<<"7">>, <<"2", ".", "5">>, <<"-", "3">>, <<"K">>, <<"s", ".", "k">>,
     <<"\"", "s", "t", "\"">>}

\* "outer o = {v, 9};" for the struct of two ints a, y and each such value v
LiteralInputs ==
    LET header == HeaderText(SchemaFields(2, 1, [type |-> n_int, dims |-> <<>>]), FALSE)
    IN  {Inputs("single", header, header, NoFile,
                DeclText(<<>>, n_outer, <<"o">>, <<>>,
                         <<"{">> \o v \o <<",", " ", "9", "}">>)) :
            v \in LiteralKinds}

\* the view of a schema that shows every array without its last dimension:
\* "int a[2];" as "int a;", "int a[2][2];" as "int a[2];"
ReshapedView(fields) ==
    [i \in 1..Len(fields) |->
        IF fields[i].dims = <<>> THEN fields[i]
        ELSE Field(fields[i].name, fields[i].type,
                   SubSeq(fields[i].dims, 1, Len(fields[i].dims) - 1))]

\* the runs of the schemas with an array of ints under such a view
ReshapedInputs ==
    UNION {{Inputs("single", HeaderText(fields, FALSE),
                   HeaderText(ReshapedView(fields), FALSE), NoFile, t) :
               t \in InitTexts(fields)} :
           fields \in {f \in Schemas :
                          \E i \in 1..Len(f) : f[i].type = n_int /\ f[i].dims # <<>>}}

AllInputs ==
    Examples \cup LiteralInputs \cup ReshapedInputs
    \cup UNION {SchemaInputs(fields) : fields \in Schemas}

(***************************************************************************)
(* State: the command line and the files (in), the fields of the           *)
(* C_deStructor object, the locals of run() and of main().                 *)
(***************************************************************************)
VARIABLES in, pc, exc, structs, view_defs, view_tree, explicit_mapping, flat_fields,
          postfix, has_decl, prefix, var_nameSrc, array_size, init_block,
          init_str, result, decls, new_declarations, output_file

object == <<structs, view_defs, view_tree, explicit_mapping, flat_fields, postfix>>

declaration == <<has_decl, prefix, var_nameSrc, array_size, init_block>>

vars ==
    <<in, pc, exc, object, declaration, init_str, result, decls, new_declarations,
      output_file>>

\* C_deStructor.__init__; the attributes extract_declaration_info sets do
\* not exist yet (has_decl = FALSE)
Init ==
    /\ in \in AllInputs
    /\ pc = "start"
    /\ exc = ""
    /\ structs = <<>>
    /\ view_defs = <<>>
    /\ view_tree = ViewDict(<<>>)
    /\ explicit_mapping = <<>>
    /\ flat_fields = <<>>
    /\ postfix = <<>>
    /\ has_decl = FALSE
    /\ prefix = <<>>
    /\ var_nameSrc = <<>>
    /\ array_size = [none |-> TRUE, text |-> <<>>]
    /\ init_block = <<>>
    /\ init_str = <<>>
    /\ result = <<>>
    /\ decls = <<>>
    /\ new_declarations = <<>>
    /\ output_file \in (IF in.prog = "mass" THEN OutputFiles ELSE {NoFile})

\* run(): self.load_full_structs()
LoadFullStructs ==
    /\ in.prog = "single" /\ pc = "start"
    /\ LET r == parse_typedef_structs(tokenize(in.header_file))
       IN  IF r.err
           THEN /\ pc' = "raised" /\ exc' = r.exc
                /\ UNCHANGED structs
           ELSE /\ pc' = "full_loaded" /\ structs' = r.structs
                /\ UNCHANGED exc
    /\ UNCHANGED <<in, output_file, view_defs, view_tree, explicit_mapping, flat_fields, postfix,
                   declaration, init_str, result, decls, new_declarations>>

\* run(): self.load_view_structs()
LoadViewStructs ==
    /\ pc = "full_loaded"
    /\ pc' = "view_loaded"
    /\ view_defs' = parse_view_structs(in.view_file)
    /\ view_tree' = build_view_tree(view_defs', in.target_view)
    /\ UNCHANGED <<in, output_file, exc, structs, explicit_mapping, flat_fields, postfix,
                   declaration, init_str, result, decls, new_declarations>>

\* run(): self.load_mapping()
LoadMapping ==
    /\ pc = "view_loaded"
    /\ pc' = "mapping_loaded"
    /\ explicit_mapping' = IF in.mapping_file.none THEN explicit_mapping
                           ELSE parse_mapping(in.mapping_file.text)
    /\ UNCHANGED <<in, output_file, exc, structs, view_defs, view_tree, flat_fields, postfix,
                   declaration, init_str, result, decls, new_declarations>>

\* run(): self.extract_declaration_info()
ExtractDeclarationInfo ==
    /\ pc = "mapping_loaded"
    /\ pc' = "extracted"
    /\ LET m == DeclSearch(in.init_text, 1, in.target_struct)
       IN  IF m.ok
           THEN /\ has_decl' = TRUE
                /\ prefix' = IF m.spec # <<>> THEN m.spec \o <<" ">> ELSE <<>>
                /\ var_nameSrc' = m.var
                /\ array_size' = ArraySize(m)
                /\ init_block' = m.init
           ELSE UNCHANGED declaration
    /\ UNCHANGED <<in, output_file, exc, object, init_str, result, decls, new_declarations>>

\* run(): the test of self.init_block and the call of process_structure
ProcessStructure ==
    /\ pc = "extracted"
    /\ IF ~has_decl
       THEN /\ pc' = "raised" /\ exc' = "AttributeError"
            /\ UNCHANGED <<flat_fields, init_str, result>>
       ELSE IF init_block = <<>>
       THEN /\ pc' = "done" /\ result' = <<>>
            /\ UNCHANGED <<exc, flat_fields, init_str>>
       ELSE LET r == process_structure(structs, in.target_struct, explicit_mapping,
                                       view_tree, flat_fields, init_block)
            IN  IF r.ret.kind # "str"
                THEN /\ pc' = "raised" /\ exc' = "TypeError"
                     /\ flat_fields' = r.flat_fields
                     /\ UNCHANGED <<init_str, result>>
                ELSE /\ pc' = "processed"
                     /\ init_str' = r.ret.text
                     /\ flat_fields' = r.flat_fields
                     /\ UNCHANGED <<exc, result>>
    /\ UNCHANGED <<in, output_file, structs, view_defs, view_tree, explicit_mapping, postfix,
                   declaration, decls, new_declarations>>

\* run(): return self.generate_declaration(init_str, var_name=var_name),
\* newVarName being ""
GenerateDeclaration ==
    /\ pc = "processed"
    /\ pc' = "done"
    /\ result' = generate_declaration(prefix, in.target_struct, array_size, postfix,
                                      init_str, var_nameSrc)
    /\ UNCHANGED <<in, output_file, exc, object, declaration, init_str, decls, new_declarations>>

\* main(): decls = extract_init_declarations_from_text(init_text, args.struct)
MainExtract ==
    /\ in.prog = "mass" /\ pc = "start"
    /\ decls' = DeclFindAll(in.init_text, 1, in.target_struct)
    /\ pc' = IF decls' = <<>> THEN "done" ELSE "main_loop"
    /\ UNCHANGED <<in, output_file, exc, object, declaration, init_str, result, new_declarations>>

\* main(): one iteration of the loop over decls, on a new C_deStructor whose
\* schema, view and mapping are never loaded
MainDeclaration ==
    /\ pc = "main_loop"
    /\ LET d == Head(decls)
           r == process_structure(<<>>, in.target_struct, <<>>, ViewDict(<<>>), <<>>,
                                  d.init)
       IN  IF r.ret.kind # "str"
           THEN /\ pc' = "raised" /\ exc' = "TypeError"
                /\ UNCHANGED <<decls, new_declarations>>
           ELSE IF r.ret.text = <<>>
           THEN /\ pc' = "raised" /\ exc' = "NameError"
                /\ UNCHANGED <<decls, new_declarations>>
           ELSE /\ new_declarations' =
                      PutOrdered(new_declarations, d.var,
                                 full_decl(d.spec, in.target_struct, d.var, ArraySize(d),
                                           <<>>, r.ret.text))
                /\ decls' = Tail(decls)
                /\ pc' = IF decls' = <<>> THEN "main_update" ELSE "main_loop"
                /\ UNCHANGED exc
    /\ UNCHANGED <<in, output_file, object, declaration, init_str, result>>

\* main(): update_output_file(new_declarations, args.output)
MainUpdate ==
    /\ pc = "main_update"
    /\ pc' = "done"
    /\ output_file' = File(update_output_file(new_declarations, output_file))
    /\ UNCHANGED <<in, exc, object, declaration, init_str, result, decls,
                   new_declarations>>

Next ==
    \/ LoadFullStructs
    \/ LoadViewStructs
    \/ LoadMapping
    \/ ExtractDeclarationInfo
    \/ ProcessStructure
    \/ GenerateDeclaration
    \/ MainExtract
    \/ MainDeclaration
    \/ MainUpdate

Spec == Init /\ [][Next]_vars

(***************************************************************************)
(* What the properties below read off a state.                             *)
(***************************************************************************)
\* the literal of the extracted declaration, parsed
Literal == parse_initialization(init_block).node

\* the flattened paths of the target struct under the loaded mapping
Names == flatten_struct_fields(structs, in.target_struct, <<>>, <<>>, explicit_mapping)

\* the instances of the literal: its elements when it is taken for a
\* top-level array of structures, else the literal itself
Instances == IF IsArrayOfStructs(Literal) THEN Literal.items ELSE <<Literal>>

\* an instance with fewer flattened scalar leaves than the schema has paths
Short(item) == Len(flatten_initialization(item)) < Len(Names)

Separators == {"{", "}", ",", " ", "\n", "\t", ";", "="}

\* the scalar values of a rendered text, left to right: the maximal runs of
\* characters that are neither braces, commas nor whitespace
RECURSIVE ScalarsFrom(_, _, _)
ScalarsFrom(s, i, cur) ==
    IF i > Len(s) THEN (IF cur = <<>> THEN <<>> ELSE <<cur>>)
    ELSE IF s[i] \in Separators
    THEN (IF cur = <<>> THEN <<>> ELSE <<cur>>) \o ScalarsFrom(s, i + 1, <<>>)
    ELSE ScalarsFrom(s, i + 1, Append(cur, s[i]))

Scalars(s) == ScalarsFrom(s, 1, <<>>)

NotSpace(c) == c \notin Space

\* a text modulo whitespace
StripWs(s) == SelectSeq(s, NotSpace)

NotBlank(line) == line # <<>>

\* the rendered elements of a top-level array "{\n" e1 ",\n" e2 ... "\n}":
\* one per line between the outer braces
ElementLines(s) ==
    LET lines == SplitLines(s)
    IN  IF Len(lines) < 2 THEN <<>>
        ELSE SelectSeq(SubSeq(lines, 2, Len(lines) - 1), NotBlank)

\* the positions of the instances that are not short, in order
RECURSIVE KeptFrom(_, _)
KeptFrom(items, k) ==
    IF k > Len(items) THEN <<>>
    ELSE (IF Short(items[k]) THEN <<>> ELSE <<k>>) \o KeptFrom(items, k + 1)

Range(f) == {f[i] : i \in DOMAIN f}

\* index j (from 0) of an array with dims, row-major: "q_r" with q the outer
\* index
RECURSIVE IndexText(_, _)
IndexText(dims, j) ==
    IF dims = <<>> THEN <<>>
    ELSE IF Len(dims) = 1 THEN IntToStr(j)
    ELSE IntToStr(j \div Product(Tail(dims))) \o <<"_">>
         \o IndexText(Tail(dims), j % Product(Tail(dims)))

\* the scalar leaves of a struct, depth first in declaration order; a leaf
\* is the sequence of steps [name, index] that lead to it, index being the
\* empty text for a step that is no array element
RECURSIVE SchemaLeafPaths(_, _, _), FieldLeafPaths(_, _, _)
SchemaLeafPaths(st, name, path) ==
    IF name \notin DOMAIN st THEN <<path>>
    ELSE Concat([k \in 1..Len(st[name]) |-> FieldLeafPaths(st, st[name][k], path)])

FieldLeafPaths(st, f, path) ==
    Concat([j \in 1..Product(f.dims) |->
              SchemaLeafPaths(st, f.type,
                  Append(path, [name |-> f.name, index |-> IndexText(f.dims, j - 1)]))])

StepText(name, index) == IF index = <<>> THEN name ELSE name \o <<"_">> \o index

\* name_index of every step, joined with "_"
PlainName(path) ==
    Join(<<"_">>, [i \in 1..Len(path) |-> StepText(path[i].name, path[i].index)])

\* the flattened names of a schema whose fields are all primitive, field by
\* field: name; name_0 .. name_{n-1}; name_0_0, name_0_1, .. in row-major order
PrimitiveFieldNames(f) ==
    IF f.dims = <<>> THEN <<f.name>>
    ELSE IF Len(f.dims) = 1
    THEN [k \in 1..f.dims[1] |-> f.name \o <<"_">> \o IntToStr(k - 1)]
    ELSE [k \in 1..(f.dims[1] * f.dims[2]) |->
            f.name \o <<"_">> \o IntToStr((k - 1) \div f.dims[2])
            \o <<"_">> \o IntToStr((k - 1) % f.dims[2])]

AllPrimitive(st, name) ==
    \A k \in 1..Len(st[name]) :
        st[name][k].type \notin DOMAIN st /\ Len(st[name][k].dims) <= 2

\* C4: with no mapping table, flatten_struct_fields visits the fields depth
\* first in declaration order; a schema of primitive fields yields, field by
\* field, the name of a scalar, name_0 .. name_{n-1} of an array [n], and the
\* n*m names name_i_j of an array [n][m] in row-major order.
C4_FlattenOrder ==
    (pc = "full_loaded" /\ in.target_struct \in DOMAIN structs) =>
        LET flat == flatten_struct_fields(structs, in.target_struct, <<>>, <<>>, <<>>)
            paths == SchemaLeafPaths(structs, in.target_struct, <<>>)
        IN  /\ flat = [i \in 1..Len(paths) |-> PlainName(paths[i])]
            /\ AllPrimitive(structs, in.target_struct) =>
                 flat = Concat([k \in 1..Len(structs[in.target_struct]) |->
                                  PrimitiveFieldNames(structs[in.target_struct][k])])

\* a schema with a scalar, then a two-dimensional primitive array, flattened
C4_Witness ==
    /\ pc = "full_loaded"
    /\ AllPrimitive(structs, in.target_struct)
    /\ Len(structs[in.target_struct]) = 2
    /\ structs[in.target_struct][2].dims = <<MaxDim, MaxDim>>
    /\ Len(flatten_struct_fields(structs, in.target_struct, <<>>, <<>>, <<>>))
         = 1 + MaxDim * MaxDim

\* the source text of a step: name, or name[index]
SourceStep(name, index) ==
    IF index = <<>> THEN name ELSE name \o <<"[">> \o index \o <<"]">>

\* the key under which step i of a path is looked up by full path: the
\* source path of the steps before it, then the name, without the indices
LookupKey(path, i) ==
    normalize_path(
        Join(<<".">>, [j \in 1..i |->
                         IF j = i THEN path[j].name
                         ELSE SourceStep(path[j].name, path[j].index)]))

\* a mapping entry matches step i by its normalized path or by its bare name
Matched(path, i, mapping) ==
    LookupKey(path, i) \in DOMAIN mapping \/ path[i].name \in DOMAIN mapping

Override(path, i, mapping) ==
    IF LookupKey(path, i) \in DOMAIN mapping THEN mapping[LookupKey(path, i)]
    ELSE mapping[path[i].name]

\* the name of a leaf under a mapping: the override of the deepest matched
\* step, verbatim, then what lies beneath it; with no matched step, every
\* step joined with "_"
MappedName(path, mapping) ==
    LET hits == {i \in 1..Len(path) : Matched(path, i, mapping)}
        last == IF hits = {} THEN 0 ELSE CHOOSE i \in hits : \A j \in hits : j <= i
        head == IF last = 0 THEN <<>>
                ELSE <<StepText(Override(path, last, mapping), path[last].index)>>
    IN  Join(<<"_">>,
             head \o [k \in 1..(Len(path) - last) |->
                        StepText(path[last + k].name, path[last + k].index)])

a_b == <<"a", ".", "b">>

\* C5: a mapping entry that matches a field, by normalized path or by bare
\* name, makes the override value the output prefix of the field and of what
\* lies beneath it, verbatim, the parent prefix being dropped; with no match
\* the prefix is parent prefix + "_" + field name.  Schema { a { b; c; } }
\* with the mapping "a.b: renamed" flattens to [renamed, a_c].
C5_MappingReanchoring ==
    (pc = "mapping_loaded" /\ in.target_struct \in DOMAIN structs) =>
        LET paths == SchemaLeafPaths(structs, in.target_struct, <<>>)
        IN  /\ Names = [i \in 1..Len(paths) |-> MappedName(paths[i], explicit_mapping)]
            /\ ( /\ structs[in.target_struct] = <<Field(<<"a">>, n_inner, <<>>)>>
                 /\ explicit_mapping = (a_b :> n_renamed) )
               => Names = <<n_renamed, <<"a", "_", "c">>>>

\* the schema { a { b; c; } } flattened under the mapping "a.b: renamed"
C5_Witness ==
    /\ pc = "mapping_loaded"
    /\ structs[in.target_struct] = <<Field(<<"a">>, n_inner, <<>>)>>
    /\ structs[n_inner] = InnerFields
    /\ explicit_mapping = (a_b :> n_renamed)
    /\ Names = <<n_renamed, <<"a", "_", "c">>>>

\* process_structure has returned to run()
Processed == in.prog = "single" /\ pc = "processed"

\* C6: an instance with fewer flattened scalar leaves than the schema has
\* flattened paths is rejected by process_structure and nothing is rendered
\* for it: a single instance yields the empty text; of a top-level array
\* the result holds one rendered element per instance that is not short,
\* and no value of a short instance.
C6_InsufficientData ==
    Processed =>
        /\ (~IsArrayOfStructs(Literal) /\ Short(Literal)) => init_str = <<>>
        /\ IsArrayOfStructs(Literal) =>
            /\ Len(ElementLines(init_str)) = Len(KeptFrom(Literal.items, 1))
            /\ \A i \in 1..Len(Literal.items) :
                 Short(Literal.items[i]) =>
                    Range(flatten_initialization(Literal.items[i]))
                        \cap Range(Scalars(init_str)) = {}

\* a top-level array whose first instance is short but holds a value and
\* whose second instance is complete: one element is rendered
C6_Witness ==
    /\ Processed
    /\ IsArrayOfStructs(Literal)
    /\ Len(Literal.items) = 2
    /\ Short(Literal.items[1])
    /\ flatten_initialization(Literal.items[1]) # <<>>
    /\ ~Short(Literal.items[2])
    /\ Len(ElementLines(init_str)) = 1

\* the field map of the one instance of an accepted literal
FieldMap == generate_field_map(Names, flatten_initialization(Literal))

\* the places of a view tree that render as one scalar, left to right, each
\* with its accumulated path prefix: the leaves, and the fields and array
\* elements whose prefix is a key of the field map
RECURSIVE RenderedKeys(_, _, _)
RenderedKeys(tree, field_map, at) ==
    IF tree.kind = "str" THEN <<[key |-> at, leaf |-> TRUE]>>
    ELSE IF tree.kind = "array"
    THEN Concat([i \in 1..tree.size |->
            LET elem_key == at \o <<"_">> \o IntToStr(i - 1)
            IN  IF elem_key \in DOMAIN field_map
                THEN <<[key |-> elem_key, leaf |-> tree.fields.kind = "str"]>>
                ELSE RenderedKeys(tree.fields, field_map, elem_key)])
    ELSE Concat([k \in 1..Len(tree.entries) |->
            LET sub == tree.entries[k].sub
                full_key == IF at = <<>> THEN tree.entries[k].key
                            ELSE at \o <<"_">> \o tree.entries[k].key
            IN  IF sub.kind # "array" /\ full_key \in DOMAIN field_map
                THEN <<[key |-> full_key, leaf |-> sub.kind = "str"]>>
                ELSE RenderedKeys(sub, field_map, full_key)])

\* a single instance that passed check_structure_type
Accepted == has_decl /\ ~IsArrayOfStructs(Literal) /\ ~Short(Literal)

\* C9: a view leaf whose accumulated path prefix is no key of the field map
\* is rendered as the text 0, and rendering it raises nothing.
C9_MissingLeafZero ==
    (in.prog = "single" /\ pc \in {"processed", "raised"} /\ Accepted) =>
        LET keys == RenderedKeys(view_tree, FieldMap, <<>>)
        IN  /\ \A i \in 1..Len(keys) :
                 (keys[i].leaf /\ keys[i].key \notin DOMAIN FieldMap) =>
                    generate_nested_initializer(ViewLeaf(n_int), FieldMap, keys[i].key)
                        = StrVal(<<"0">>)
            /\ pc = "processed" =>
                 /\ Len(Scalars(init_str)) = Len(keys)
                 /\ \A i \in 1..Len(keys) :
                      (keys[i].leaf /\ keys[i].key \notin DOMAIN FieldMap) =>
                         Scalars(init_str)[i] = <<"0">>

\* a view with a leaf the field map holds and a leaf it lacks, rendered
C9_Witness ==
    /\ Processed
    /\ Accepted
    /\ \E i, j \in 1..Len(RenderedKeys(view_tree, FieldMap, <<>>)) :
         LET keys == RenderedKeys(view_tree, FieldMap, <<>>)
         IN  /\ keys[i].leaf /\ keys[i].key \notin DOMAIN FieldMap
             /\ Scalars(init_str)[i] = <<"0">>
             /\ keys[j].leaf /\ keys[j].key \in DOMAIN FieldMap
             /\ Scalars(init_str)[j] # <<"0">>

\* the view tree with the field names, types and dims of a schema whose
\* arrays have one dimension
RECURSIVE SchemaTree(_, _)
SchemaTree(st, name) ==
    IF name \notin DOMAIN st THEN ViewLeaf(name)
    ELSE ViewDict([k \in 1..Len(st[name]) |->
            [key |-> st[name][k].name,
             sub |-> IF st[name][k].dims = <<>> THEN SchemaTree(st, st[name][k].type)
                     ELSE ViewArray(st[name][k].dims[1],
                                    SchemaTree(st, st[name][k].type))]])

\* C1: with no mapping table and a view tree structurally identical to the
\* full schema, a literal with as many flattened leaves as the schema has
\* flattened paths is rendered by process_structure as a nested initializer
\* whose scalar values, left to right, are the literal's flattened values.
C1_RoundTrip ==
    ( /\ Processed
      /\ explicit_mapping = <<>>
      /\ view_tree = SchemaTree(structs, in.target_struct)
      /\ Len(flatten_initialization(Literal)) = Len(Names) )
    => Scalars(init_str) = flatten_initialization(Literal)

\* "Type var = {v1, ..., vk};"
PlainDeclaration(type, var, values) ==
    type \o <<" ">> \o var \o <<" ", "=", " ", "{">> \o Join(<<",", " ">>, values)
    \o <<"}", ";">>

\* C2: for the schema "typedef struct { int x; int y; } point;", a view of
\* the same text, no mapping and the initializer "point p = {1, 2};", run()
\* returns "point p = {1, 2};"; for k scalar primitive fields and k values
\* it returns "Type var = {v1, ..., vk};".
C2_EndToEnd ==
    /\ (in = PointExample /\ pc = "done") =>
          result = PlainDeclaration(n_point, <<"p">>, <<<<"1">>, <<"2">>>>)
    /\ ( /\ in.prog = "single" /\ pc = "done" /\ has_decl
         /\ in.mapping_file.none /\ in.view_file = in.header_file
         /\ prefix = <<>> /\ array_size.none
         /\ \A k \in 1..Len(structs[in.target_struct]) :
              /\ structs[in.target_struct][k].dims = <<>>
              /\ structs[in.target_struct][k].type \notin DOMAIN structs
         /\ ~IsArrayOfStructs(Literal)
         /\ Len(flatten_initialization(Literal)) = Len(structs[in.target_struct]) )
       => result = PlainDeclaration(in.target_struct, var_nameSrc,
                                    flatten_initialization(Literal))

\* C3: a literal whose first element is a list is a top-level array: each
\* element is flattened, mapped and rendered on its own and the rendered
\* elements are joined in one outer brace pair.  For the schema "typedef
\* struct { int v[3]; } box;", the same view and "box b[1] = {{ {1,2,3} }};"
\* the flattened names are [v_0, v_1, v_2], the flattened literal is [1,2,3]
\* and the one element is rendered as {1, 2, 3}.
C3_TopLevelArray ==
    /\ (Processed /\ IsArrayOfStructs(Literal)) =>
          LET kept == KeptFrom(Literal.items, 1)
          IN  init_str = <<"{", "\n">>
                \o Join(<<",", "\n">>,
                     [i \in 1..Len(kept) |->
                        RenderInstance(structs, in.target_struct, explicit_mapping,
                            view_tree,
                            flatten_initialization(Literal.items[kept[i]])).text])
                \o <<"\n", "}">>
    /\ (in = BoxExample /\ Processed) =>
          /\ IsArrayOfStructs(Literal)
          /\ Names = << <<"v", "_", "0">>, <<"v", "_", "1">>, <<"v", "_", "2">> >>
          /\ flatten_initialization(Literal) = << <<"1">>, <<"2">>, <<"3">> >>
          /\ Len(ElementLines(init_str)) = 1
          /\ StripWs(ElementLines(init_str)[1]) = <<"{", "1", ",", "2", ",", "3", "}">>

\* C7: in single-instance mode, when the one extracted initializer has fewer
\* values than the schema expects, run() returns the empty text and no
\* declaration.
C7_SingleMismatchEmpty ==
    ( /\ in.prog = "single" /\ pc \in {"done", "raised"} /\ has_decl
      /\ ~IsArrayOfStructs(Literal) /\ Short(Literal) )
    => (pc = "done" /\ result = <<>>)

\* C8: when the initializer text holds no statement for the requested type,
\* run() returns the empty text and does not fail.
C8_MissingInstance ==
    ( /\ in.prog = "single" /\ pc \in {"done", "raised"}
      /\ ~DeclSearch(in.init_text, 1, in.target_struct).ok )
    => (pc = "done" /\ result = <<>>)

\* the schema of the header file, which main() hands to every C_deStructor
HeaderStructs == parse_typedef_structs(tokenize(in.header_file)).structs

\* a declaration of the init file with one instance that holds fewer values
\* than the schema of the header file has flattened paths
ShortDeclaration(d) ==
    LET lit == parse_initialization(d.init).node
    IN  /\ ~IsArrayOfStructs(lit)
        /\ Len(flatten_initialization(lit))
             < Len(flatten_struct_fields(HeaderStructs, in.target_struct, <<>>, <<>>,
                                         <<>>))

\* C10: of several instances processed against one schema, view and mapping
\* (the elements of a top-level array in process_structure, the declarations
\* of mass_process.main) one with too few values is skipped, processing
\* goes on, and every other instance is rendered, in the original order.
C10_BatchIsolation ==
    /\ (Processed /\ IsArrayOfStructs(Literal)) =>
          Len(ElementLines(init_str)) = Len(KeptFrom(Literal.items, 1))
    /\ in.prog = "mass" => pc # "raised"
    /\ (in.prog = "mass" /\ pc = "done") =>
          LET all == DeclFindAll(in.init_text, 1, in.target_struct)
          IN  \A i \in 1..Len(all) :
                ShortDeclaration(all[i]) <=>
                    ~(\E k \in 1..Len(new_declarations) :
                         new_declarations[k].key = all[i].var)

\* the flattened values of the literal
Values == flatten_initialization(Literal)

\* C11: a literal with more flattened values than the schema has flattened
\* paths (N) is accepted; its field map and its rendered output are those of
\* its first N values, and no value after position N reaches the output.
C11_ExcessValues ==
    (Processed /\ ~IsArrayOfStructs(Literal) /\ Len(Values) > Len(Names)) =>
        LET first == SubSeq(Values, 1, Len(Names))
        IN  /\ init_str # <<>>
            /\ generate_field_map(Names, Values) = generate_field_map(Names, first)
            /\ init_str = RenderInstance(structs, in.target_struct, explicit_mapping,
                                         view_tree, first).text
            /\ \A k \in (Len(Names) + 1)..Len(Values) :
                 Values[k] \notin Range(Scalars(init_str))

\* a literal with one value more than the schema has paths, rendered with
\* a value of its own
C11_Witness ==
    /\ Processed
    /\ ~IsArrayOfStructs(Literal)
    /\ Len(Values) = Len(Names) + 1
    /\ \E k \in 1..Len(Names) : Values[k] \in Range(Scalars(init_str))
    /\ Values[Len(Values)] \notin Range(Scalars(init_str))

\* the source path of the first i steps of a leaf, dot-joined, without any
\* array index
DottedPath(path, i) == Join(<<".">>, [j \in 1..i |-> path[j].name])

\* the name of a leaf when every field is looked up under its dotted path
\* first, under its bare name second, and keeps its name otherwise
NameByDottedPath(path, mapping) ==
    LET hits == {i \in 1..Len(path) :
                    DottedPath(path, i) \in DOMAIN mapping
                    \/ path[i].name \in DOMAIN mapping}
        last == IF hits = {} THEN 0 ELSE CHOOSE i \in hits : \A j \in hits : j <= i
        value == IF DottedPath(path, last) \in DOMAIN mapping
                 THEN mapping[DottedPath(path, last)]
                 ELSE mapping[path[last].name]
        head == IF last = 0 THEN <<>> ELSE <<StepText(value, path[last].index)>>
    IN  Join(<<"_">>,
             head \o [k \in 1..(Len(path) - last) |->
                        StepText(path[last + k].name, path[last + k].index)])

\* C12: at every nesting depth, also beneath one-dimensional and
\* multi-dimensional arrays of structs, a field is looked up in the mapping
\* table under its dot-joined source path with every array index stripped;
\* an entry for that path goes before an entry for the bare field name, and
\* with neither the field name is used.
C12_MappingLookupKey ==
    (pc = "mapping_loaded" /\ in.target_struct \in DOMAIN structs) =>
        LET paths == SchemaLeafPaths(structs, in.target_struct, <<>>)
        IN  Names = [i \in 1..Len(paths) |->
                        NameByDottedPath(paths[i], explicit_mapping)]

\* the field map of the flattened paths when leaf i holds the value i
NumberedFieldMap ==
    generate_field_map(Names, [i \in 1..Len(Names) |-> IntToStr(i)])

\* no flat path occurs twice in the list flatten_struct_fields returns
NoDuplicatePath == \A i, j \in 1..Len(Names) : i # j => Names[i] # Names[j]

\* every entry of the field map holds the value of exactly one leaf: none
\* was overwritten and none was merged into a list
OneEntryPerLeaf ==
    /\ Cardinality(DOMAIN NumberedFieldMap) = Len(Names)
    /\ \A k \in DOMAIN NumberedFieldMap : NumberedFieldMap[k].kind = "str"

\* C13: with or without a mapping table, the list returned by
\* flatten_struct_fields has no duplicates, and generate_field_map keeps one
\* entry per leaf: no later value overwrites or joins an earlier leaf's entry.
C13_FlatPathUnique ==
    (pc = "mapping_loaded" /\ in.target_struct \in DOMAIN structs) =>
        NoDuplicatePath /\ OneEntryPerLeaf

\* the values written in a literal, left to right: what stands between its
\* braces and commas, without the white space around it (no value of the
\* inputs holds a brace or a comma)
RECURSIVE WrittenFrom(_, _, _)
WrittenFrom(s, i, cur) ==
    IF i > Len(s) THEN (IF Strip(cur) = <<>> THEN <<>> ELSE <<Strip(cur)>>)
    ELSE IF s[i] \in {"{", "}", ","}
    THEN (IF Strip(cur) = <<>> THEN <<>> ELSE <<Strip(cur)>>)
         \o WrittenFrom(s, i + 1, <<>>)
    ELSE WrittenFrom(s, i + 1, Append(cur, s[i]))

WrittenValues(s) == WrittenFrom(s, 1, <<>>)

\* C14: every scalar value written in the initializer (a number, an
\* identifier, a dotted identifier or a string) is one leaf of the parsed
\* literal with its lexical text: the flattened parsed literal is the list
\* of the values written, left to right.
C14_LiteralLeaves ==
    (in.prog = "single" /\ has_decl) => Values = WrittenValues(init_block)

\* the field map of an instance of the literal
InstanceFieldMap(item) == generate_field_map(Names, flatten_initialization(item))

\* the keys of the field map that the generator takes directly for a field
\* of an object or an element of an array
DirectKeys(tree, field_map) ==
    LET keys == RenderedKeys(tree, field_map, <<>>)
    IN  {keys[i].key : i \in {j \in 1..Len(keys) : keys[j].key \in DOMAIN field_map}}

\* C15: for the view tree and the field map of every instance that passes
\* the count check, generate_nested_initializer returns a text and raises
\* nothing, and every entry of the field map that it takes directly for an
\* object field or an array element is one scalar text, never a list.
C15_GeneratorTotality ==
    /\ exc # "TypeError"
    /\ (in.prog = "single" /\ has_decl /\ init_block # <<>>) =>
          \A k \in 1..Len(Instances) :
             ~Short(Instances[k]) =>
                LET field_map == InstanceFieldMap(Instances[k])
                IN  /\ generate_nested_initializer(view_tree, field_map, <<>>).kind = "str"
                    /\ \A key \in DirectKeys(view_tree, field_map) :
                         field_map[key].kind = "str"
====
